---- MODULE Spec2Model ----
(***************************************************************************)
(* A model of azcaptchaapi (src/azcaptchaapi/__init__.py): the account     *)
(* client AZCaptchaApi, the ticket class Captcha, the two exception        *)
(* rewriting decorators and the text functions they rest on.               *)
(*                                                                         *)
(* A text is a sequence of one-character strings, so that splitting and    *)
(* HTML unescaping are computed character by character as Python does.     *)
(***************************************************************************)
EXTENDS Integers, Sequences, FiniteSets, TLC

(* ----------------------------------------------------------------------- *)
(* Bounds of the model                                                     *)
(* ----------------------------------------------------------------------- *)

\* An await_result loop is followed for at most this many sleeps.
MaxSleeps == 2

(* ----------------------------------------------------------------------- *)
(* Texts                                                                   *)
(* ----------------------------------------------------------------------- *)

\* A Python string literal as a sequence of characters.
Chars(s) == [i \in 1..Len(s) |-> SubSeq(s, i, i)]

\* Python's None.
None == <<"None">>

\* `sub in text` for a one-character sub.
Contains(text, ch) == \E i \in 1..Len(text) : text[i] = ch

\* text.split(sep) for a one-character sep: the list of the parts between
\* the separators, one more part than there are separators.
RECURSIVE SplitFrom(_, _, _, _)
SplitFrom(text, sep, i, cur) ==
    IF i > Len(text) THEN <<cur>>
    ELSE IF text[i] = sep THEN <<cur>> \o SplitFrom(text, sep, i + 1, <<>>)
    ELSE SplitFrom(text, sep, i + 1, Append(cur, text[i]))

split(text, sep) == SplitFrom(text, sep, 1, <<>>)

\* The decimal digits.
Digits == {"0", "1", "2", "3", "4", "5", "6", "7", "8", "9"}

DigitVal(ch) ==
    CASE ch = "0" -> 0 [] ch = "1" -> 1 [] ch = "2" -> 2 [] ch = "3" -> 3
      [] ch = "4" -> 4 [] ch = "5" -> 5 [] ch = "6" -> 6 [] ch = "7" -> 7
      [] ch = "8" -> 8 [] ch = "9" -> 9

RECURSIVE DecimalValue(_)
DecimalValue(ds) ==
    IF Len(ds) = 0 THEN 0
    ELSE 10 * DecimalValue(SubSeq(ds, 1, Len(ds) - 1)) + DigitVal(ds[Len(ds)])

AllDigits(ds) == \A i \in 1..Len(ds) : ds[i] \in Digits

(* ----------------------------------------------------------------------- *)
(* html.unescape                                                           *)
(* ----------------------------------------------------------------------- *)

\* The entries of html.entities.html5 that the modelled servers send, with
\* and without the closing semicolon as the table of the library has them.
Html5 ==
    (Chars("amp;") :> "&") @@ (Chars("amp") :> "&") @@ (Chars("lt;") :> "<")
        @@ (Chars("lt") :> "<") @@ (Chars("vert;") :> "|")

Html5Names == DOMAIN Html5

\* chr(num) for the code points the modelled servers send.
CodePoints == {38, 60, 124}

Chr(num) ==
    CASE num = 38 -> "&"
      [] num = 60 -> "<"
      [] num = 124 -> "|"

\* The characters that end a named character reference.
NameStop == {" ", "<", "&", "#", ";"}

\* The length of the longest run of characters of text from position i on
\* that all satisfy the test, at most max long.
RECURSIVE RunLen(_, _, _, _)
RunLen(text, i, stop, max) ==
    IF max = 0 \/ i > Len(text) \/ text[i] \in stop THEN 0
    ELSE 1 + RunLen(text, i + 1, stop, max - 1)

RECURSIVE DigitRun(_, _)
DigitRun(text, i) ==
    IF i > Len(text) \/ text[i] \notin Digits THEN 0
    ELSE 1 + DigitRun(text, i + 1)

\* The longest proper prefix s[:x], x from len(s)-1 down to 2, that is in
\* the table; 0 when there is none.
RECURSIVE LongestPrefix(_, _)
LongestPrefix(s, x) ==
    IF x < 2 THEN 0
    ELSE IF SubSeq(s, 1, x) \in Html5Names THEN x
    ELSE LongestPrefix(s, x - 1)

\* The replacement of one matched named reference s (the text after the &).
ReplaceNamed(s) ==
    IF s \in Html5Names THEN <<Html5[s]>>
    ELSE LET x == LongestPrefix(s, Len(s) - 1)
         IN  IF x > 0
             THEN <<Html5[SubSeq(s, 1, x)]>> \o SubSeq(s, x + 1, Len(s))
             ELSE <<"&">> \o s

\* The replacement of one matched numeric reference: ds are its digits and
\* s the whole match after the &.
ReplaceNumeric(ds, s) ==
    IF DecimalValue(ds) \in CodePoints THEN <<Chr(DecimalValue(ds))>>
    ELSE <<"&">> \o s

RECURSIVE UnescapeFrom(_, _)
UnescapeFrom(text, i) ==
    IF i > Len(text) THEN <<>>
    ELSE IF text[i] # "&" THEN <<text[i]>> \o UnescapeFrom(text, i + 1)
    ELSE IF i + 1 <= Len(text) /\ text[i + 1] = "#"
    THEN LET n == DigitRun(text, i + 2)
             semi == IF i + 2 + n <= Len(text) /\ text[i + 2 + n] = ";"
                     THEN 1 ELSE 0
         IN  IF n = 0 THEN <<"&">> \o UnescapeFrom(text, i + 1)
             ELSE ReplaceNumeric(SubSeq(text, i + 2, i + 1 + n),
                                 SubSeq(text, i + 1, i + 1 + n + semi))
                  \o UnescapeFrom(text, i + 2 + n + semi)
    ELSE LET n == RunLen(text, i + 1, NameStop, 32)
             semi == IF i + 1 + n <= Len(text) /\ text[i + 1 + n] = ";"
                     THEN 1 ELSE 0
         IN  IF n = 0 THEN <<"&">> \o UnescapeFrom(text, i + 1)
             ELSE ReplaceNamed(SubSeq(text, i + 1, i + n + semi))
                  \o UnescapeFrom(text, i + 1 + n + semi)

\* html.unescape(text)
unescape(text) ==
    IF ~Contains(text, "&") THEN text ELSE UnescapeFrom(text, 1)

(* ----------------------------------------------------------------------- *)
(* Exceptions                                                              *)
(* ----------------------------------------------------------------------- *)

\* An exception is its class, the classes isinstance() accepts it for, and
\* its message.
Exc(type, bases, msg) == [type |-> type, bases |-> bases \cup {type}, msg |-> msg]

\* No exception was raised.
NoExc == [type |-> "NoException", bases |-> {}, msg |-> <<>>]

isinstance(e, class) == class \in e.bases

AZCaptchaApiError == {"AZCaptchaApiError", "Exception"}

CommunicationError(msg) == Exc("CommunicationError", AZCaptchaApiError, msg)

ResponseFormatError(msg) == Exc("ResponseFormatError", AZCaptchaApiError, msg)

OperationFailedError(msg) == Exc("OperationFailedError", AZCaptchaApiError, msg)

\* The built-in exceptions the code raises or meets.
ValueError(msg) == Exc("ValueError", {"Exception"}, msg)

TypeError(msg) == Exc("TypeError", {"Exception"}, msg)

IOError(msg) == Exc("IOError", {"Exception"}, msg)

\* What `requests` raises for a failed call: every one is a
\* requests.RequestException (itself an IOError); InvalidURL (a redirect
\* to a malformed location, a malformed proxy URL) also derives from
\* ValueError.
RequestExceptions ==
    { Exc("ConnectionError", {"RequestException", "IOError", "Exception"},
          Chars("refused")),
      Exc("Timeout", {"RequestException", "IOError", "Exception"},
          Chars("timed out")),
      Exc("InvalidURL",
          {"RequestException", "IOError", "ValueError", "Exception"},
          Chars("invalid URL")) }

\* The messages of the exceptions.
MSG_COMMUNICATION ==
    Chars("an error occurred while communicating with the AZCaptcha API")

MSG_FORMAT == Chars("unexpected response format")

MSG_OPERATION_FAILED == Chars("Operation failed: ")

MSG_NOT_RETRIEVED ==
    Chars("tried reporting bad state for captcha not yet retrieved")

MSG_DOUBLE_REPORT == Chars("tried double-reporting bad captcha")

MSG_API_RESPONSE == Chars("unexpected API response")

MSG_UNPACK == Chars("too many values to unpack")

MSG_FLOAT == Chars("could not convert string to float")

MSG_NO_FILE == Chars("No such file or directory")

MSG_CLOSED == Chars("I/O operation on closed file")

MSG_CONCAT == Chars("can only concatenate str to str")

\* The result of a call: the value returned, or the exception raised.
Return(v) == [ret |-> v, exc |-> NoExc]

Raise(e) == [ret |-> None, exc |-> e]

Raised(r) == r.exc # NoExc

(* ----------------------------------------------------------------------- *)
(* The decorators                                                          *)
(* ----------------------------------------------------------------------- *)

\* _rewrite_http_to_com_err: r is the result of the wrapped function.
rewrite_http_to_com_err(r) ==
    IF Raised(r) /\ isinstance(r.exc, "RequestException")
    THEN [r EXCEPT !.exc = CommunicationError(MSG_COMMUNICATION)]
    ELSE r

\* _rewrite_to_format_err(*exception_types): r is the result of the wrapped
\* function.
rewrite_to_format_err(exception_types, r) ==
    IF Raised(r) /\ isinstance(r.exc, "Exception")
    THEN IF \E x \in exception_types : isinstance(r.exc, x)
         THEN [r EXCEPT !.exc = ResponseFormatError(MSG_FORMAT)]
         ELSE r
    ELSE r

(* ----------------------------------------------------------------------- *)
(* The transport                                                           *)
(* ----------------------------------------------------------------------- *)

BASE_URL == Chars("http://azcaptcha.com")

REQ_URL == BASE_URL \o Chars("/in.php")

RES_URL == BASE_URL \o Chars("/res.php")

LOAD_URL == BASE_URL \o Chars("/load.php")

\* The values of the `action` parameter, and the other constant texts of
\* the requests and responses.
ACTION_GETBALANCE == Chars("getbalance")

ACTION_GETSTATS == Chars("getstats")

ACTION_GET == Chars("get")

ACTION_REPORTBAD == Chars("reportbad")

METHOD_POST == Chars("post")

FILE_PREFIX == Chars("captcha.")

OK_REPORT_RECORDED == Chars("OK_REPORT_RECORDED")

\* No request was sent.
NoRequest == [method |-> "none", url |-> <<>>, params |-> {}, files |-> {}]

\* AZCaptchaApi.get: the request that requests.get is handed.
get(key, url, params) ==
    [method |-> "GET", url |-> url,
     params |-> params \cup {<<"key", key>>}, files |-> {}]

\* AZCaptchaApi.post: the request that requests.post is handed.
post(key, url, data, files) ==
    [method |-> "POST", url |-> url,
     params |-> data \cup {<<"key", key>>}, files |-> files]

\* What the transport answers to one request: it raises, or returns a
\* response with a body.
Response(text) == [exc |-> NoExc, text |-> text]

Failure(e) == [exc |-> e, text |-> <<>>]

NoReply == [exc |-> NoExc, text |-> None]

TransportFailures == { Failure(e) : e \in RequestExceptions }

Responses(texts) == { Response(Chars(t)) : t \in texts }

(* ----------------------------------------------------------------------- *)
(* AZCaptchaApi                                                            *)
(* ----------------------------------------------------------------------- *)

\* repr(text) of a text without quotes, backslashes or control characters.
Repr(text) == <<"'">> \o text \o <<"'">>

\* "Operation failed: %r" % (text,)
OperationFailedMsg(text) == MSG_OPERATION_FAILED \o Repr(text)

\* float(text) for the plain decimal notation: digits with at most one
\* point and a digit on one side of it.  The value is the digits read as
\* an integer and the number of them after the point.
float(text) ==
    LET parts == split(text, ".")
        whole == parts[1]
        frac  == IF Len(parts) = 2 THEN parts[2] ELSE <<>>
    IN  IF /\ Len(parts) <= 2
           /\ AllDigits(whole) /\ AllDigits(frac)
           /\ Len(whole) + Len(frac) > 0
        THEN Return(<<"float", DecimalValue(whole \o frac), Len(frac)>>)
        ELSE Raise(ValueError(MSG_FLOAT))

\* The body of get_balance, before its decorators.
get_balance_body(reply) ==
    IF reply.exc # NoExc THEN Raise(reply.exc) ELSE float(reply.text)

\* get_balance without the rewrite of what float raises.
get_balance_unrewritten(key, reply) ==
    [request |-> get(key, RES_URL, {<<"action", ACTION_GETBALANCE>>}),
     result  |-> rewrite_http_to_com_err(get_balance_body(reply))]

\* AZCaptchaApi.get_balance: the request sent and the result.
get_balance(key, reply) ==
    [request |-> get(key, RES_URL, {<<"action", ACTION_GETBALANCE>>}),
     result  |-> rewrite_http_to_com_err(
                     rewrite_to_format_err({"ValueError"}, get_balance_body(reply)))]

\* The decimal digit character of d.
DigitChar(d) == CHOOSE ch \in Digits : DigitVal(ch) = d

\* "%0<width>d" % n
RECURSIVE Pad(_, _)
Pad(n, width) ==
    IF width = 0 THEN <<>> ELSE Pad(n \div 10, width - 1) \o <<DigitChar(n % 10)>>

\* date.isoformat() of the date <<"date", year, month, day>>.
isoformat(date) ==
    Pad(date[2], 4) \o <<"-">> \o Pad(date[3], 2) \o <<"-">> \o Pad(date[4], 2)

\* AZCaptchaApi.get_stats: date is <<"str", text>> or a date object.
get_stats(key, date, reply) ==
    [request |-> get(key, RES_URL,
                     { <<"action", ACTION_GETSTATS>>,
                       <<"date", IF date[1] = "str" THEN date[2]
                                 ELSE isoformat(date)>> }),
     result  |-> rewrite_http_to_com_err(
                     IF reply.exc # NoExc THEN Raise(reply.exc)
                     ELSE Return(reply.text))]

\* AZCaptchaApi.get_load
get_load(key, reply) ==
    [request |-> get(key, LOAD_URL, {}),
     result  |-> rewrite_http_to_com_err(
                     IF reply.exc # NoExc THEN Raise(reply.exc)
                     ELSE Return(reply.text))]

\* Captcha that starts with its id as its result and marked as reported.
Captcha_resolved(captcha_id) ==
    [captcha_id |-> captcha_id, cached_result |-> captcha_id,
     reported_bad |-> TRUE]

\* Captcha.__init__
Captcha(captcha_id) ==
    [captcha_id |-> captcha_id, cached_result |-> None, reported_bad |-> FALSE]

\* The slot of a ticket that was not created.
NoCaptcha == [captcha_id |-> None, cached_result |-> None, reported_bad |-> FALSE]

\* The `file` argument of solve: a path or a file object, whether reading
\* it works, and what imghdr.what says of its bytes (None: no known
\* format).
Files ==
    { [kind |-> "path",   state |-> "ok",      what |-> Chars("png")],
      [kind |-> "handle", state |-> "ok",      what |-> Chars("jpeg")],
      [kind |-> "handle", state |-> "ok",      what |-> None],
      [kind |-> "path",   state |-> "missing", what |-> None],
      [kind |-> "handle", state |-> "closed",  what |-> None] }

\* Whether solve gets as far as sending its request.
SolveSends(file) == file.state = "ok" /\ file.what # None

\* solve_parse with the parts taken the other way round: the ticket gets
\* the text before the |.
solve_parse_first(text) ==
    IF Contains(text, "|")
    THEN LET parts == split(text, "|")
         IN  IF Len(parts) # 2
             THEN Raise(ValueError(MSG_UNPACK))
             ELSE Return(<<"Captcha", parts[1]>>)
    ELSE Raise(OperationFailedError(OperationFailedMsg(text)))

\* The part of solve after the response: the parse of its text.
solve_parse(text) ==
    IF Contains(text, "|")
    THEN LET parts == split(text, "|")
         IN  IF Len(parts) # 2
             THEN Raise(ValueError(MSG_UNPACK))
             ELSE Return(<<"Captcha", parts[2]>>)
    ELSE Raise(OperationFailedError(OperationFailedMsg(text)))

\* The body of solve, before its decorators.
solve_body(file, reply) ==
    IF file.kind = "path" /\ file.state = "missing"
    THEN Raise(IOError(MSG_NO_FILE))
    ELSE IF file.kind = "handle" /\ file.state = "closed"
    THEN Raise(ValueError(MSG_CLOSED))
    ELSE IF file.what = None
    THEN Raise(TypeError(MSG_CONCAT))
    ELSE IF reply.exc # NoExc THEN Raise(reply.exc)
    ELSE solve_parse(reply.text)

\* AZCaptchaApi.solve: the request sent (none when reading the file or
\* naming it fails) and the result; a returned ticket is <<"Captcha", id>>.
solve(key, file, captcha_parameters, reply) ==
    [request |-> IF SolveSends(file)
                 THEN post(key, REQ_URL,
                           IF captcha_parameters = {}
                           THEN {<<"method", METHOD_POST>>}
                           ELSE captcha_parameters,
                           {<<"file", FILE_PREFIX \o file.what>>})
                 ELSE NoRequest,
     result  |-> rewrite_http_to_com_err(
                     rewrite_to_format_err({"IndexError", "ValueError"},
                                           solve_body(file, reply)))]

(* ----------------------------------------------------------------------- *)
(* Captcha                                                                 *)
(* ----------------------------------------------------------------------- *)

\* NotReady with the server's misspelling alone.
NotReady_misspelled == { Chars("CAPCHA_NOT_READY") }

\* The two spellings of the not-ready answer.
NotReady == { Chars("CAPCHA_NOT_READY"), Chars("CAPTCHA_NOT_READY") }

\* The result of a method of a ticket: the ticket afterwards, the request
\* the call sent (NoRequest: none), and what it returned or raised.
Done(self, request, r) ==
    [self |-> self, request |-> request, ret |-> r.ret, exc |-> r.exc]

\* try_get_result_parse that caches the text of a failure as the result.
try_get_result_parse_cachefail(self, text) ==
    IF Contains(text, "|")
    THEN LET parts == split(unescape(text), "|")
         IN  IF Len(parts) # 2
             THEN [self |-> self, r |-> Raise(ValueError(MSG_UNPACK))]
             ELSE [self |-> [self EXCEPT !.cached_result = parts[2]],
                   r |-> Return(parts[2])]
    ELSE IF text \in { Chars("CAPCHA_NOT_READY"), Chars("CAPTCHA_NOT_READY") }
    THEN [self |-> self, r |-> Return(None)]
    ELSE [self |-> [self EXCEPT !.cached_result = text],
          r |-> Raise(OperationFailedError(OperationFailedMsg(text)))]

\* try_get_result_parse that decodes the text first and looks for the |
\* in the decoded text.
try_get_result_parse_decodefirst(self, text) ==
    LET decoded == unescape(text)
    IN  IF Contains(decoded, "|")
        THEN LET parts == split(decoded, "|")
             IN  IF Len(parts) # 2
                 THEN [self |-> self, r |-> Raise(ValueError(MSG_UNPACK))]
                 ELSE [self |-> [self EXCEPT !.cached_result = parts[2]],
                       r |-> Return(parts[2])]
        ELSE IF decoded \in { Chars("CAPCHA_NOT_READY"), Chars("CAPTCHA_NOT_READY") }
        THEN [self |-> self, r |-> Return(None)]
        ELSE [self |-> self,
              r |-> Raise(OperationFailedError(OperationFailedMsg(text)))]

\* try_get_result_parse that caches the second part before it finds that
\* the parts are not two.
try_get_result_parse_cachefirst(self, text) ==
    IF Contains(text, "|")
    THEN LET parts == split(unescape(text), "|")
         IN  IF Len(parts) # 2
             THEN [self |-> [self EXCEPT !.cached_result = parts[2]],
                   r |-> Raise(ValueError(MSG_UNPACK))]
             ELSE [self |-> [self EXCEPT !.cached_result = parts[2]],
                   r |-> Return(parts[2])]
    ELSE IF text \in { Chars("CAPCHA_NOT_READY"), Chars("CAPTCHA_NOT_READY") }
    THEN [self |-> self, r |-> Return(None)]
    ELSE [self |-> self,
          r |-> Raise(OperationFailedError(OperationFailedMsg(text)))]

\* The part of try_get_result after the response, before the decorators:
\* the ticket afterwards and the result.
try_get_result_parse(self, text) ==
    IF Contains(text, "|")
    THEN LET parts == split(unescape(text), "|")
         IN  IF Len(parts) # 2
             THEN [self |-> self,
                   r |-> Raise(ValueError(MSG_UNPACK))]
             ELSE [self |-> [self EXCEPT !.cached_result = parts[2]],
                   r |-> Return(parts[2])]
    ELSE IF text \in NotReady
    THEN [self |-> self, r |-> Return(None)]
    ELSE [self |-> self,
          r |-> Raise(OperationFailedError(OperationFailedMsg(text)))]

\* try_get_result without the test for a cached result: it polls on every
\* call.
try_get_result_refetch(key, self, reply) ==
    LET request == get(key, RES_URL,
                       {<<"action", ACTION_GET>>, <<"id", self.captcha_id>>})
        body == IF reply.exc # NoExc
                THEN [self |-> self, r |-> Raise(reply.exc)]
                ELSE IF Contains(reply.text, "|")
                THEN LET parts == split(unescape(reply.text), "|")
                     IN  IF Len(parts) # 2
                         THEN [self |-> self, r |-> Raise(ValueError(MSG_UNPACK))]
                         ELSE [self |-> [self EXCEPT !.cached_result = parts[2]],
                               r |-> Return(parts[2])]
                ELSE IF reply.text \in { Chars("CAPCHA_NOT_READY"),
                                         Chars("CAPTCHA_NOT_READY") }
                THEN [self |-> self, r |-> Return(None)]
                ELSE [self |-> self,
                      r |-> Raise(OperationFailedError(OperationFailedMsg(reply.text)))]
    IN  Done(body.self, request,
             rewrite_http_to_com_err(rewrite_to_format_err({"ValueError"}, body.r)))

\* Captcha.try_get_result
try_get_result(key, self, reply) ==
    IF self.cached_result # None
    THEN Done(self, NoRequest, Return(self.cached_result))
    ELSE LET request == get(key, RES_URL,
                            {<<"action", ACTION_GET>>, <<"id", self.captcha_id>>})
             body == IF reply.exc # NoExc
                     THEN [self |-> self, r |-> Raise(reply.exc)]
                     ELSE try_get_result_parse(self, reply.text)
         IN  Done(body.self, request,
                  rewrite_http_to_com_err(
                      rewrite_to_format_err({"ValueError"}, body.r)))

\* The request and the answer of report_bad, common to its variants below.
report_bad_request(key, self) ==
    get(key, RES_URL, {<<"action", ACTION_REPORTBAD>>, <<"id", self.captcha_id>>})

report_bad_answer(reply) ==
    rewrite_http_to_com_err(
        IF reply.exc # NoExc THEN Raise(reply.exc)
        ELSE IF reply.text # OK_REPORT_RECORDED
        THEN Raise(ResponseFormatError(MSG_API_RESPONSE))
        ELSE Return(None))

\* report_bad that forgets the result of a ticket it has reported.
report_bad_clears(key, self, reply) ==
    IF self.cached_result = None
    THEN Done(self, NoRequest, Raise(ValueError(MSG_NOT_RETRIEVED)))
    ELSE IF self.reported_bad
    THEN Done(self, NoRequest, Raise(ValueError(MSG_DOUBLE_REPORT)))
    ELSE LET r == report_bad_answer(reply)
         IN  Done(IF Raised(r) THEN self ELSE [self EXCEPT !.cached_result = None],
                  report_bad_request(key, self), r)

\* report_bad that sets reported_bad on entry, before its two tests.
report_bad_flags_first(key, self, reply) ==
    LET flagged == [self EXCEPT !.reported_bad = TRUE]
    IN  IF self.cached_result = None
        THEN Done(flagged, NoRequest, Raise(ValueError(MSG_NOT_RETRIEVED)))
        ELSE IF self.reported_bad
        THEN Done(flagged, NoRequest, Raise(ValueError(MSG_DOUBLE_REPORT)))
        ELSE Done(flagged, report_bad_request(key, self), report_bad_answer(reply))

\* report_bad without its two tests: it sends the report whatever the
\* ticket holds.
report_bad_unchecked(key, self, reply) ==
    Done(self, report_bad_request(key, self), report_bad_answer(reply))

\* Captcha.report_bad
report_bad(key, self, reply) ==
    IF self.cached_result = None
    THEN Done(self, NoRequest,
              rewrite_http_to_com_err(Raise(ValueError(MSG_NOT_RETRIEVED))))
    ELSE IF self.reported_bad
    THEN Done(self, NoRequest,
              rewrite_http_to_com_err(Raise(ValueError(MSG_DOUBLE_REPORT))))
    ELSE Done(self, report_bad_request(key, self), report_bad_answer(reply))

(* ----------------------------------------------------------------------- *)
(* The inputs                                                              *)
(* ----------------------------------------------------------------------- *)

\* The credentials a client is constructed with.
ApiKeys == { Chars("key1"), Chars("key2") }

\* The tickets the caller holds: each handle is a variable of the caller
\* that a ticket returned by solve is stored in.
Handles == {"c1"}

\* What the server answers on each endpoint.
BalanceReplies ==
    Responses({"12.34", "0", "ERROR_WRONG_USER_KEY", ""}) \cup TransportFailures

StatsReplies == Responses({"<stats/>"}) \cup TransportFailures

LoadReplies == Responses({"load=5"}) \cup TransportFailures

SolveReplies ==
    Responses({"OK|12345", "ERROR|9", "OK|", "OK|1|2", "ERROR_ZERO_BALANCE"})
        \cup TransportFailures

PollReplies ==
    Responses({"OK|secret", "OK|5&amp;6", "OK|", "OK|a|b", "OK|a&#124;b",
               "OK&#124;x", "CAPCHA_NOT_READY", "CAPTCHA_NOT_READY",
               "ERROR_CAPTCHA_UNSOLVABLE"})
        \cup TransportFailures

ReportReplies ==
    Responses({"OK_REPORT_RECORDED", "ok_report_recorded", "ERROR_WRONG_CAPTCHA_ID"})
        \cup TransportFailures

Dates == { <<"str", Chars("2016-01-02")>>, <<"date", 2016, 1, 2>> }

CaptchaParameters ==
    { {}, {<<"method", Chars("post")>>, <<"numeric", Chars("1")>>} }

(* ----------------------------------------------------------------------- *)
(* The state                                                               *)
(* ----------------------------------------------------------------------- *)

VARIABLES
    api_key,     \* AZCaptchaApi.api_key
    captchas,    \* the Captcha object behind each handle, NoCaptcha before solve
    pc,          \* where each ticket's await_result is: "idle" (not running),
                 \* "try" (about to call try_get_result), "sleep" (about to sleep)
    awaitLog,    \* per ticket, what its present or last await_result did, in
                 \* order: <<"try", whether a poll was sent, the text answered
                 \* (None: no answer)>> and <<"sleep">>
    failed,      \* per ticket, whether a try_get_result on it has raised
                 \* OperationFailedError
    reportedOk,  \* per ticket, whether a report_bad on it has returned
    last         \* the last call: its operation, ticket, request, reply and result

vars == <<api_key, captchas, pc, awaitLog, failed, reportedOk, last>>

\* The record of a call; its reply is what the transport answered to its
\* request, NoReply when it sent none.  running: the call is an
\* await_result that has not returned or raised yet.
Call(op, h, request, reply, r, running) ==
    [op |-> op, h |-> h, request |-> request,
     reply |-> IF request = NoRequest THEN NoReply ELSE reply,
     ret |-> r.ret, exc |-> r.exc, running |-> running]

NoCall == Call("none", "none", NoRequest, NoReply, Return(None), FALSE)

Init ==
    /\ api_key \in ApiKeys
    /\ captchas = [h \in Handles |-> NoCaptcha]
    /\ pc = [h \in Handles |-> "idle"]
    /\ awaitLog = [h \in Handles |-> <<>>]
    /\ failed = [h \in Handles |-> FALSE]
    /\ reportedOk = [h \in Handles |-> FALSE]
    /\ last = NoCall

\* The caller holds a ticket in h and no await_result runs on it.
Idle(h) == captchas[h] # NoCaptcha /\ pc[h] = "idle"

(* ----------------------------------------------------------------------- *)
(* The operations                                                          *)
(* ----------------------------------------------------------------------- *)

call_get_balance(reply) ==
    LET c == get_balance(api_key, reply)
    IN  /\ last' = Call("get_balance", "none", c.request, reply, c.result, FALSE)
        /\ UNCHANGED <<api_key, captchas, pc, awaitLog, failed, reportedOk>>

call_get_stats(date, reply) ==
    LET c == get_stats(api_key, date, reply)
    IN  /\ last' = Call("get_stats", "none", c.request, reply, c.result, FALSE)
        /\ UNCHANGED <<api_key, captchas, pc, awaitLog, failed, reportedOk>>

call_get_load(reply) ==
    LET c == get_load(api_key, reply)
    IN  /\ last' = Call("get_load", "none", c.request, reply, c.result, FALSE)
        /\ UNCHANGED <<api_key, captchas, pc, awaitLog, failed, reportedOk>>

\* solve, the ticket it returns stored in h.
call_solve(h, file, captcha_parameters) ==
    /\ captchas[h] = NoCaptcha
    /\ \E reply \in SolveReplies :
          LET c == solve(api_key, file, captcha_parameters, reply)
          IN  /\ captchas' = IF Raised(c.result) THEN captchas
                             ELSE [captchas EXCEPT ![h] = Captcha(c.result.ret[2])]
              /\ last' = Call("solve", h, c.request, reply, c.result, FALSE)
    /\ UNCHANGED <<api_key, pc, awaitLog, failed, reportedOk>>

\* call_try_get_result with the result kept in one place for all tickets,
\* as an attribute of the class would be: every ticket gets what this one
\* cached.
call_try_get_result_shared(h) ==
    /\ Idle(h)
    /\ \E reply \in PollReplies :
          LET c == try_get_result(api_key, captchas[h], reply)
          IN  /\ captchas' = [g \in DOMAIN captchas |->
                                IF g = h THEN c.self
                                ELSE IF captchas[g] = NoCaptcha THEN captchas[g]
                                ELSE [captchas[g] EXCEPT
                                         !.cached_result = c.self.cached_result]]
              /\ failed' = [failed EXCEPT
                               ![h] = @ \/ c.exc.type = "OperationFailedError"]
              /\ last' = Call("try_get_result", h, c.request, reply, c, FALSE)
    /\ UNCHANGED <<api_key, pc, awaitLog, reportedOk>>

call_try_get_result(h) ==
    /\ Idle(h)
    /\ \E reply \in PollReplies :
          LET c == try_get_result(api_key, captchas[h], reply)
          IN  /\ captchas' = [captchas EXCEPT ![h] = c.self]
              /\ failed' = [failed EXCEPT
                               ![h] = @ \/ c.exc.type = "OperationFailedError"]
              /\ last' = Call("try_get_result", h, c.request, reply, c, FALSE)
    /\ UNCHANGED <<api_key, pc, awaitLog, reportedOk>>

call_report_bad(h) ==
    /\ Idle(h)
    /\ \E reply \in ReportReplies :
          LET c == report_bad(api_key, captchas[h], reply)
          IN  /\ captchas' = [captchas EXCEPT ![h] = c.self]
              /\ reportedOk' = [reportedOk EXCEPT ![h] = @ \/ ~Raised(c)]
              /\ last' = Call("report_bad", h, c.request, reply, c, FALSE)
    /\ UNCHANGED <<api_key, pc, awaitLog, failed>>

\* await_result is called: it enters its loop.
await_result_call(h) ==
    /\ Idle(h)
    /\ pc' = [pc EXCEPT ![h] = "try"]
    /\ awaitLog' = [awaitLog EXCEPT ![h] = <<>>]
    /\ last' = Call("await_result", h, NoRequest, NoReply, Return(None), TRUE)
    /\ UNCHANGED <<api_key, captchas, failed, reportedOk>>

\* await_result_next without the sleep: after None the loop calls
\* try_get_result again at once.
await_result_next_nosleep(c) ==
    IF ~Raised(c) /\ c.ret = None THEN "try" ELSE "idle"

\* await_result_next that catches what try_get_result raises and tries
\* again after the sleep.
await_result_next_swallow(c) ==
    IF Raised(c) \/ c.ret = None THEN "sleep" ELSE "idle"

\* await_result_next that gives up after one try_get_result: it leaves
\* the call whatever the try gave.
await_result_next_once(c) == "idle"

\* await_result_next that tests the result for truth, not for None: an
\* empty text is waited out like None.
await_result_next_truthy(c) ==
    IF ~Raised(c) /\ (c.ret = None \/ c.ret = <<>>) THEN "sleep" ELSE "idle"

\* Where await_result goes after its try_get_result gave c: out of the
\* call when it raised or returned a result, to the sleep otherwise.
await_result_next(c) ==
    IF ~Raised(c) /\ c.ret = None THEN "sleep" ELSE "idle"

\* One pass of the loop of await_result up to the sleep: try_get_result,
\* whose exception leaves await_result and whose result, unless None, is
\* returned.
await_result_try(h) ==
    /\ pc[h] = "try"
    /\ \E reply \in PollReplies :
          LET c == try_get_result(api_key, captchas[h], reply)
              next == await_result_next(c)
          IN  /\ captchas' = [captchas EXCEPT ![h] = c.self]
              /\ failed' = [failed EXCEPT
                               ![h] = @ \/ c.exc.type = "OperationFailedError"]
              /\ awaitLog' = [awaitLog EXCEPT ![h] =
                     Append(@, <<"try", c.request # NoRequest,
                                 IF c.request = NoRequest \/ reply.exc # NoExc
                                 THEN None ELSE reply.text>>)]
              /\ pc' = [pc EXCEPT ![h] = next]
              /\ last' = Call("await_result", h, c.request, reply, c,
                             next # "idle")
    /\ UNCHANGED <<api_key, reportedOk>>

\* The sleeps of the await_result of h so far.
Sleeps(h) == Len(SelectSeq(awaitLog[h], LAMBDA e : e[1] = "sleep"))

\* time.sleep(sleep_time), and back to the head of the loop.
await_result_sleep(h) ==
    /\ pc[h] = "sleep"
    /\ Sleeps(h) < MaxSleeps
    /\ awaitLog' = [awaitLog EXCEPT ![h] = Append(@, <<"sleep">>)]
    /\ pc' = [pc EXCEPT ![h] = "try"]
    /\ UNCHANGED <<api_key, captchas, failed, reportedOk, last>>

\* The life of a ticket: it is created by solve, polled, awaited, reported.
Next ==
    \/ \E h \in Handles, file \in Files, p \in CaptchaParameters :
          call_solve(h, file, p)
    \/ \E h \in Handles : call_try_get_result(h)
    \/ \E h \in Handles : call_report_bad(h)
    \/ \E h \in Handles : await_result_call(h)
    \/ \E h \in Handles : await_result_try(h)
    \/ \E h \in Handles : await_result_sleep(h)

Spec == Init /\ [][Next]_vars

\* The operations of the account: the three queries and solve.
NextAccount ==
    \/ \E reply \in BalanceReplies : call_get_balance(reply)
    \/ \E date \in Dates, reply \in StatsReplies : call_get_stats(date, reply)
    \/ \E reply \in LoadReplies : call_get_load(reply)
    \/ \E h \in Handles, file \in Files, p \in CaptchaParameters :
          call_solve(h, file, p)

SpecAccount == Init /\ [][NextAccount]_vars

\* The pass of await_result_try with no history kept of it, so that the
\* loop can be followed for as long as it runs.
await_result_try_unlogged(h) ==
    /\ pc[h] = "try"
    /\ \E reply \in PollReplies :
          LET c == try_get_result(api_key, captchas[h], reply)
              next == await_result_next(c)
          IN  /\ captchas' = [captchas EXCEPT ![h] = c.self]
              /\ failed' = [failed EXCEPT
                               ![h] = @ \/ c.exc.type = "OperationFailedError"]
              /\ pc' = [pc EXCEPT ![h] = next]
              /\ last' = Call("await_result", h, c.request, reply, c,
                             next # "idle")
    /\ UNCHANGED <<api_key, awaitLog, reportedOk>>

\* time.sleep(sleep_time) with no history kept of it: the loop has no
\* count of its passes, and the sleep returns however many went before.
await_result_sleep_unlogged(h) ==
    /\ pc[h] = "sleep"
    /\ pc' = [pc EXCEPT ![h] = "try"]
    /\ UNCHANGED <<api_key, captchas, awaitLog, failed, reportedOk, last>>

\* The texts by which the server says that the result is not ready.
NotReadyReplies == Responses({"CAPCHA_NOT_READY", "CAPTCHA_NOT_READY"})

\* A pass of await_result whose poll, if it sent one, was answered by
\* something other than not-ready.
await_result_answered(h) ==
    await_result_try_unlogged(h) /\ last'.reply \notin NotReadyReplies

\* Tickets that are created and awaited, each await_result running for as
\* long as its loop does.
NextLive ==
    \/ \E h \in Handles, file \in Files, p \in CaptchaParameters :
          call_solve(h, file, p)
    \/ \E h \in Handles : call_try_get_result(h)
    \/ \E h \in Handles : await_result_call(h)
    \/ \E h \in Handles : await_result_try_unlogged(h)
    \/ \E h \in Handles : await_result_sleep_unlogged(h)

\* The loop of await_result goes on: its request is answered or fails
\* (WF of the pass), its sleep returns (WF of the sleep); and the server
\* does not answer not-ready for ever to a ticket that is polled again and
\* again (SF of the pass answered otherwise).
SpecLive ==
    /\ Init
    /\ [][NextLive]_vars
    /\ \A h \in Handles :
          /\ WF_vars(await_result_try_unlogged(h))
          /\ WF_vars(await_result_sleep_unlogged(h))
          /\ SF_vars(await_result_answered(h))

\* Two callers, each holding one ticket of the same client.
Owners == {"c1", "c2"}

InitOwners ==
    /\ api_key \in ApiKeys
    /\ captchas = [h \in Owners |-> NoCaptcha]
    /\ pc = [h \in Owners |-> "idle"]
    /\ awaitLog = [h \in Owners |-> <<>>]
    /\ failed = [h \in Owners |-> FALSE]
    /\ reportedOk = [h \in Owners |-> FALSE]
    /\ last = NoCall

\* What the server answers while the two tickets are driven together: a
\* part of the answers above, NoReply for a call that sent nothing.
OwnersSolveReplies == Responses({"OK|12345", "ERROR|9"})

OwnersPollReplies ==
    Responses({"OK|secret", "OK|5&amp;6", "CAPCHA_NOT_READY",
               "ERROR_CAPTCHA_UNSOLVABLE"}) \cup {NoReply}

OwnersReportReplies ==
    Responses({"OK_REPORT_RECORDED", "ERROR_WRONG_CAPTCHA_ID"}) \cup {NoReply}

\* The operations of the two callers in any interleaving; the passes of
\* two await_result interleave pass by pass.
NextOwners ==
    \/ \E h \in Owners, file \in Files, p \in CaptchaParameters :
          /\ file.kind = "path" /\ file.state = "ok" /\ p = {}
          /\ call_solve(h, file, p)
          /\ last'.reply \in OwnersSolveReplies
    \/ \E h \in Owners :
          call_try_get_result(h) /\ last'.reply \in OwnersPollReplies
    \/ \E h \in Owners :
          call_report_bad(h) /\ last'.reply \in OwnersReportReplies
    \/ \E h \in Owners : await_result_call(h)
    \/ \E h \in Owners :
          await_result_try_unlogged(h) /\ last'.reply \in OwnersPollReplies
    \/ \E h \in Owners : await_result_sleep_unlogged(h)

SpecOwners == InitOwners /\ [][NextOwners]_vars

(* ----------------------------------------------------------------------- *)
(* The states of a ticket                                                  *)
(* ----------------------------------------------------------------------- *)

\* The caller holds a ticket in h.
Live(h) == captchas[h] # NoCaptcha

\* The ticket of h has its result.
Resolved(h) == Live(h) /\ captchas[h].cached_result # None

\* The ticket of h has no result yet.
Pending(h) == Live(h) /\ captchas[h].cached_result = None

\* This step is a try_get_result on the ticket of h, called by the caller
\* or by await_result.
TryStep(h) == call_try_get_result(h) \/ await_result_try(h)

\* An error of the caller, outside the taxonomy of the library.
UsageError(e) == e.type = "ValueError" /\ ~isinstance(e, "AZCaptchaApiError")

(* ----------------------------------------------------------------------- *)
(* C1                                                                      *)
(* ----------------------------------------------------------------------- *)

\* C1: once the result of a ticket is cached, every try_get_result on the
\* ticket returns the cached value, sends no request (so gets no reply) and
\* leaves the ticket as it is.
C1_CachedResultIsNotPolledAgain ==
    [][\A h \in Handles :
          (Resolved(h) /\ TryStep(h)) =>
              /\ last'.ret = captchas[h].cached_result
              /\ last'.exc = NoExc
              /\ last'.request = NoRequest
              /\ last'.reply = NoReply
              /\ captchas'[h] = captchas[h]]_vars

\* A try_get_result was called on a ticket that had its result, after the
\* call that fetched it: it returned the result without a request.
C1_Witness ==
    \E h \in Handles :
        /\ last.op = "try_get_result" /\ last.h = h
        /\ last.request = NoRequest
        /\ Resolved(h)
        /\ last.ret = captchas[h].cached_result

(* ----------------------------------------------------------------------- *)
(* C2                                                                      *)
(* ----------------------------------------------------------------------- *)

\* C2: report_bad raises a usage error when the ticket has no result yet,
\* and when a report_bad on the ticket has returned before.
C2_ReportBadUsageErrors ==
    [][\A h \in Handles :
          (call_report_bad(h) /\ (Pending(h) \/ reportedOk[h])) =>
              UsageError(last'.exc)]_vars

(* ----------------------------------------------------------------------- *)
(* C3                                                                      *)
(* ----------------------------------------------------------------------- *)

\* C3: after a report_bad on a resolved ticket that the server answered
\* with OK_REPORT_RECORDED, reported_bad of the ticket is true.
C3_ReportedBadIsSet ==
    \A h \in Handles :
        ( /\ last.op = "report_bad" /\ last.h = h
          /\ last.reply = Response(Chars("OK_REPORT_RECORDED")) )
            => captchas[h].reported_bad

(* ----------------------------------------------------------------------- *)
(* C4                                                                      *)
(* ----------------------------------------------------------------------- *)

\* The entries of a log of await_result that are calls of try_get_result,
\* and those that are sleeps.
Tries(log) == SelectSeq(log, LAMBDA e : e[1] = "try")

SleepsOf(log) == SelectSeq(log, LAMBDA e : e[1] = "sleep")

\* The answers of a log that are not-ready, in either spelling.
NotReadyAnswers(log) ==
    SelectSeq(log, LAMBDA e :
        /\ e[1] = "try"
        /\ e[3] \in {Chars("CAPCHA_NOT_READY"), Chars("CAPTCHA_NOT_READY")})

\* The log ends with the answer OK|secret.
EndsWithSecret(log) ==
    Len(log) > 0 /\ log[Len(log)][1] = "try" /\ log[Len(log)][3] = Chars("OK|secret")

\* The server has so far answered as the script says: every try_get_result
\* of the log sent a poll, and the answer was not-ready in either spelling,
\* but for a last answer OK|secret.
Scripted(log) ==
    \A i \in 1..Len(log) :
        log[i][1] = "try" =>
            /\ log[i][2]
            /\ \/ log[i][3] \in {Chars("CAPCHA_NOT_READY"), Chars("CAPTCHA_NOT_READY")}
               \/ i = Len(log) /\ log[i][3] = Chars("OK|secret")

\* C4: called on a pending ticket against a server that answers not-ready
\* N times and then OK|secret, await_result polls and sleeps in turn,
\* starting with a poll; it is still running while the answers are
\* not-ready, and on OK|secret it returns "secret", after N+1 polls and N
\* sleeps.
C4_AwaitPollsAndSleepsInTurn ==
    \A h \in Handles :
        ( /\ last.op = "await_result" /\ last.h = h
          /\ Pending(h) \/ Len(awaitLog[h]) > 0
          /\ Scripted(awaitLog[h]) ) =>
            LET log == awaitLog[h]
                polls == Len(Tries(log))
                sleeps == Len(SleepsOf(log))
                n == Len(NotReadyAnswers(log))
            IN  /\ \A i \in 1..Len(log) :
                      log[i][1] = IF i % 2 = 1 THEN "try" ELSE "sleep"
                /\ IF EndsWithSecret(log)
                   THEN /\ pc[h] = "idle" /\ ~last.running
                        /\ last.exc = NoExc
                        /\ last.ret = Chars("secret")
                        /\ captchas[h].cached_result = Chars("secret")
                        /\ polls = n + 1 /\ sleeps = n
                   ELSE /\ pc[h] # "idle" /\ last.running
                        /\ Pending(h)
                        /\ polls = n
                        /\ pc[h] = "try" => sleeps = n
                        /\ pc[h] = "sleep" => sleeps = n - 1

\* An await_result returned "secret" after two not-ready answers, one in
\* each spelling, three polls and two sleeps.
C4_Witness ==
    \E h \in Handles :
        /\ last.op = "await_result" /\ last.h = h /\ ~last.running
        /\ Scripted(awaitLog[h]) /\ EndsWithSecret(awaitLog[h])
        /\ Len(Tries(awaitLog[h])) = 3 /\ Len(SleepsOf(awaitLog[h])) = 2
        /\ awaitLog[h][1][3] # awaitLog[h][3][3]
        /\ last.ret = Chars("secret")

(* ----------------------------------------------------------------------- *)
(* C5                                                                      *)
(* ----------------------------------------------------------------------- *)

\* C5 as stated: a resolved ticket stays resolved, and a ticket on which
\* try_get_result has raised OperationFailedError is never resolved later.
C5_FailedIsTerminal ==
    [][\A h \in Handles :
          /\ Resolved(h) => Resolved(h)'
          /\ failed[h] => ~Resolved(h)']_vars

\* C5 as amended: Resolved is the one terminal state.  A resolved ticket
\* stays resolved; a try_get_result on a pending ticket that raises
\* OperationFailedError leaves the ticket pending and as it was, one that
\* returns None leaves it pending, and the ticket is resolved exactly when
\* the call returns a result.
C5_ResolvedIsTheTerminalState ==
    [][\A h \in Handles :
          /\ Resolved(h) => Resolved(h)'
          /\ (Pending(h) /\ TryStep(h)) =>
                /\ last'.exc.type = "OperationFailedError" =>
                       (Pending(h)' /\ captchas'[h] = captchas[h])
                /\ (last'.exc = NoExc /\ last'.ret = None) => Pending(h)'
                /\ Resolved(h)' <=> (last'.exc = NoExc /\ last'.ret # None)]_vars

\* A ticket on which try_get_result raised OperationFailedError was polled
\* again and resolved.
C5_Witness == \E h \in Handles : failed[h] /\ Resolved(h)

(* ----------------------------------------------------------------------- *)
(* C6                                                                      *)
(* ----------------------------------------------------------------------- *)

\* C6: the result of a ticket, once present, is the same after every step:
\* no try_get_result, await_result or report_bad changes or clears it.
C6_ResultIsImmutable ==
    [][\A h \in Handles :
          Resolved(h) =>
              captchas'[h].cached_result = captchas[h].cached_result]_vars

\* A report_bad sent its request and raised, on a ticket that has its
\* result: the result is still there.
C6_Witness ==
    \E h \in Handles :
        /\ Resolved(h)
        /\ last.op = "report_bad" /\ last.h = h /\ last.exc # NoExc
        /\ last.request # NoRequest

(* ----------------------------------------------------------------------- *)
(* C7                                                                      *)
(* ----------------------------------------------------------------------- *)

C8_TransportFailureIsCommunicationError ==
    last.reply.exc # NoExc => last.exc.type = "CommunicationError"

(* ----------------------------------------------------------------------- *)
(* C9                                                                      *)
(* ----------------------------------------------------------------------- *)

\* C9: a try_get_result that is answered CAPCHA_NOT_READY or
\* CAPTCHA_NOT_READY returns None, raises nothing and leaves the ticket
\* (its id, result and reported_bad) as it was, pending.
C9_BothSpellingsAreNotReady ==
    [][\A h \in Handles :
          ( /\ TryStep(h)
            /\ last'.reply \in { Response(Chars("CAPCHA_NOT_READY")),
                                 Response(Chars("CAPTCHA_NOT_READY")) } ) =>
              /\ last'.ret = None
              /\ last'.exc = NoExc
              /\ captchas'[h] = captchas[h]
              /\ Pending(h)']_vars

\* An await_result was answered in both spellings, one after the other, and
\* the ticket is pending.
C9_Witness ==
    \E h \in Handles :
        /\ Pending(h)
        /\ Len(awaitLog[h]) >= 3
        /\ awaitLog[h][1][3] = Chars("CAPCHA_NOT_READY")
        /\ awaitLog[h][3][3] = Chars("CAPTCHA_NOT_READY")

(* ----------------------------------------------------------------------- *)
(* C10                                                                     *)
(* ----------------------------------------------------------------------- *)

\* The number of | in a text, and the texts before and after its first |.
Pipes(text) == Len(SelectSeq(text, LAMBDA ch : ch = "|"))

FirstPipe(text) ==
    CHOOSE i \in 1..Len(text) : text[i] = "|" /\ \A j \in 1..(i - 1) : text[j] # "|"

Before(text) == SubSeq(text, 1, FirstPipe(text) - 1)

After(text) == SubSeq(text, FirstPipe(text) + 1, Len(text))

\* The last call is a solve that got a response.
SolveAnswered ==
    last.op = "solve" /\ last.reply # NoReply /\ last.reply.exc = NoExc

\* The last call raised OperationFailedError with the text in its message.
FailedWith(text) ==
    /\ last.exc.type = "OperationFailedError"
    /\ last.exc.msg = Chars("Operation failed: '") \o text \o Chars("'")

\* The last call returned a new ticket with this id, now behind its handle.
TicketWith(id) ==
    /\ last.exc = NoExc
    /\ last.ret = <<"Captcha", id>>
    /\ captchas[last.h] =
           [captcha_id |-> id, cached_result |-> None, reported_bad |-> FALSE]

\* C10 as stated: solve returns a ticket with the id for a response OK|id,
\* and a response that is neither that nor a malformed split (more than one
\* |, or no id after OK|, of which nothing is said here) raises
\* OperationFailedError with the raw text and gives no ticket.
C10_TicketOnlyForOk ==
    SolveAnswered =>
        LET text == last.reply.text
        IN  IF Pipes(text) = 1 /\ Before(text) = Chars("OK") /\ After(text) # <<>>
            THEN TicketWith(After(text))
            ELSE IF Pipes(text) > 1 \/ (Pipes(text) = 1 /\ Before(text) = Chars("OK"))
            THEN TRUE
            ELSE FailedWith(text) /\ captchas[last.h] = NoCaptcha

\* C10 as amended: solve returns a ticket exactly for a response with one
\* |, the ticket holding the text after the |, whatever is before it; a
\* response without | raises OperationFailedError with the raw text, one
\* with more than one | raises ResponseFormatError, and neither gives a
\* ticket.
C10_TicketForOnePipe ==
    SolveAnswered =>
        LET text == last.reply.text
        IN  CASE Pipes(text) = 1 -> TicketWith(After(text))
              [] Pipes(text) = 0 ->
                    FailedWith(text) /\ captchas[last.h] = NoCaptcha
              [] OTHER ->
                    /\ last.exc.type = "ResponseFormatError"
                    /\ captchas[last.h] = NoCaptcha

\* A solve was answered ERROR|9 and returned a ticket with the id 9.
C10_Witness ==
    /\ SolveAnswered
    /\ last.reply.text = Chars("ERROR|9")
    /\ TicketWith(Chars("9"))

(* ----------------------------------------------------------------------- *)
(* C11                                                                     *)
(* ----------------------------------------------------------------------- *)

\* C11: a solve answered OK|id returns a new ticket with that id which is
\* Pending, its result absent and not reported bad, and on which nothing
\* has happened yet; a solve answered a text without | raises
\* OperationFailedError whose message carries exactly that text, and gives
\* no ticket.
C11_SolveGivesAPendingTicket ==
    SolveAnswered =>
        LET text == last.reply.text
            h    == last.h
        IN  /\ (Pipes(text) = 1 /\ Before(text) = Chars("OK")) =>
                  /\ last.exc = NoExc
                  /\ last.ret = <<"Captcha", After(text)>>
                  /\ captchas[h].captcha_id = After(text)
                  /\ captchas[h].cached_result = None
                  /\ captchas[h].reported_bad = FALSE
                  /\ Pending(h)
                  /\ pc[h] = "idle" /\ ~failed[h] /\ ~reportedOk[h]
            /\ Pipes(text) = 0 =>
                  /\ last.exc.type = "OperationFailedError"
                  /\ isinstance(last.exc, "AZCaptchaApiError")
                  /\ last.exc.msg = Chars("Operation failed: '") \o text \o Chars("'")
                  /\ last.ret = None
                  /\ ~Live(h)

\* A solve was answered OK|12345 and its ticket 12345 is Pending.
C11_Witness ==
    /\ SolveAnswered
    /\ last.reply.text = Chars("OK|12345")
    /\ Pending(last.h)
    /\ captchas[last.h].captcha_id = Chars("12345")

(* ----------------------------------------------------------------------- *)
(* C12                                                                     *)
(* ----------------------------------------------------------------------- *)

\* The three errors of the library.
LibraryErrors == {"CommunicationError", "ResponseFormatError", "OperationFailedError"}

\* C12: when the try_get_result of a pass of await_result raises, the
\* await_result ends with that pass: the caller gets the same error, the
\* call is no longer running, so that it neither polls nor sleeps again,
\* and the pass that raised is the last entry of its history.
C12_AwaitPropagatesTheError ==
    [][\A h \in Handles :
          await_result_try(h) =>
              LET c == try_get_result(api_key, captchas[h], last'.reply)
              IN  Raised(c) =>
                      /\ last'.op = "await_result" /\ last'.h = h
                      /\ last'.exc = c.exc
                      /\ last'.exc.type \in LibraryErrors
                      /\ last'.ret = None
                      /\ ~last'.running
                      /\ pc'[h] = "idle"
                      /\ Len(awaitLog'[h]) = Len(awaitLog[h]) + 1
                      /\ awaitLog'[h][Len(awaitLog'[h])][1] = "try"]_vars

\* An await_result has ended with OperationFailedError on its second pass,
\* after one sleep, and is not running.
C12_Witness ==
    /\ last.op = "await_result"
    /\ last.exc.type = "OperationFailedError"
    /\ ~last.running
    /\ pc[last.h] = "idle"
    /\ Len(awaitLog[last.h]) = 3
    /\ awaitLog[last.h][2] = <<"sleep">>

(* ----------------------------------------------------------------------- *)
(* C13                                                                     *)
(* ----------------------------------------------------------------------- *)

\* The await_result of h is running.
Awaiting(h) == pc[h] # "idle"

\* C13: await_result has no cap on its passes and no deadline.  A pass
\* leaves the call exactly when its try_get_result gave a result or raised;
\* a pass answered not-ready on a Pending ticket goes to the sleep with
\* the call still running; the sleep is always followed by another pass,
\* however many went before; and when the server does not answer not-ready
\* for ever, every await_result ends.
C13_AwaitEndsWhenAnsweredOtherwise ==
    /\ [][\A h \in Handles :
             await_result_try_unlogged(h) =>
                 /\ pc'[h] = "idle" <=> (last'.exc # NoExc \/ last'.ret # None)
                 /\ pc'[h] = "idle" <=> ~last'.running
                 /\ (Pending(h) /\ last'.reply \in NotReadyReplies) =>
                        /\ pc'[h] = "sleep"
                        /\ last'.exc = NoExc /\ last'.ret = None
                        /\ last'.running]_vars
    /\ [](\A h \in Handles :
             /\ pc[h] = "sleep" => ENABLED await_result_sleep_unlogged(h)
             /\ pc[h] = "try" => ENABLED await_result_try_unlogged(h))
    /\ [][\A h \in Handles :
             await_result_sleep_unlogged(h) => pc'[h] = "try" /\ last' = last]_vars
    /\ \A h \in Handles : Awaiting(h) ~> ~Awaiting(h)

\* An await_result on a Pending ticket was answered not-ready: it is about
\* to sleep and is still running.
C13_Witness ==
    /\ last.op = "await_result"
    /\ last.running
    /\ last.reply \in NotReadyReplies
    /\ pc[last.h] = "sleep"
    /\ Pending(last.h)

(* ----------------------------------------------------------------------- *)
(* C14                                                                     *)
(* ----------------------------------------------------------------------- *)

\* The last call is a get_balance that was answered this text.
BalanceAnswered(text) ==
    /\ last.op = "get_balance"
    /\ last.reply.exc = NoExc
    /\ last.reply.text = Chars(text)

\* The last call raised the ResponseFormatError of the library.
RaisedFormatError ==
    /\ last.ret = None
    /\ last.exc.type = "ResponseFormatError"
    /\ isinstance(last.exc, "AZCaptchaApiError")
    /\ last.exc.msg = Chars("unexpected response format")

\* C14: get_balance returns the number its response spells in decimal
\* notation (12.34 for "12.34": the digits 1234 with two of them after the
\* point; 0 for "0"), and raises ResponseFormatError, neither
\* OperationFailedError nor the ValueError of the parse, for a response
\* that is not a number, as the error code ERROR_WRONG_USER_KEY or the
\* empty text.
C14_BalanceIsParsedOrFormatError ==
    /\ BalanceAnswered("12.34") =>
           last.exc = NoExc /\ last.ret = <<"float", 1234, 2>>
    /\ BalanceAnswered("0") =>
           last.exc = NoExc /\ last.ret = <<"float", 0, 0>>
    /\ BalanceAnswered("ERROR_WRONG_USER_KEY") => RaisedFormatError
    /\ BalanceAnswered("") => RaisedFormatError
    /\ (last.op = "get_balance" /\ last.reply.exc = NoExc) =>
           /\ last.exc.type \notin {"OperationFailedError", "ValueError"}
           /\ last.exc = NoExc <=> last.ret # None

\* A get_balance was answered ERROR_WRONG_USER_KEY and raised
\* ResponseFormatError.
C14_Witness ==
    /\ BalanceAnswered("ERROR_WRONG_USER_KEY")
    /\ last.exc.type = "ResponseFormatError"

(* ----------------------------------------------------------------------- *)
(* C15                                                                     *)
(* ----------------------------------------------------------------------- *)

\* All that is kept for the ticket of h.
TicketState(h) == <<captchas[h], pc[h], awaitLog[h], failed[h], reportedOk[h]>>

\* This step is an operation of the caller that holds h: the call it
\* records is on h or, for the sleep of an await_result, which records
\* none, the await_result of h moves on.
StepOf(h) ==
    IF last' # last THEN last'.h = h ELSE pc'[h] # pc[h]

\* C15: with two tickets of one client driven in any interleaving, an
\* operation on one ticket leaves the id, the result and the bad-report
\* flag of the other as they are, and the credentials of the client too;
\* and what it makes of its own ticket is what the operation makes of
\* that ticket alone, given the answer it got: nothing of the other ticket
\* enters it.  So each ticket goes through the states it would go through
\* with its operations run alone.
C15_TicketsDoNotInterfere ==
    [][\A h \in Owners :
          StepOf(h) =>
              /\ \A g \in Owners \ {h} : TicketState(g)' = TicketState(g)
              /\ api_key' = api_key
              /\ captchas'[h] =
                    CASE last' = last -> captchas[h]
                      [] last'.op = "solve" ->
                            IF last'.exc # NoExc THEN captchas[h]
                            ELSE [captcha_id |-> last'.ret[2],
                                  cached_result |-> None,
                                  reported_bad |-> FALSE]
                      [] last'.op = "try_get_result" ->
                            try_get_result(api_key, captchas[h], last'.reply).self
                      [] last'.op = "await_result" /\ pc[h] = "try" ->
                            try_get_result(api_key, captchas[h], last'.reply).self
                      [] last'.op = "report_bad" ->
                            report_bad(api_key, captchas[h], last'.reply).self
                      [] OTHER -> captchas[h]]_vars

\* The ticket of c1 was polled and got its result while the await_result
\* of c2, a ticket with another id and no result, was in its sleep.
C15_Witness ==
    /\ DOMAIN captchas = Owners
    /\ last.op = "try_get_result" /\ last.h = "c1"
    /\ last.request # NoRequest
    /\ captchas["c1"].cached_result = Chars("secret")
    /\ Pending("c2")
    /\ pc["c2"] = "sleep"
    /\ captchas["c1"].captcha_id # captchas["c2"].captcha_id

(* ----------------------------------------------------------------------- *)
(* C16                                                                     *)
(* ----------------------------------------------------------------------- *)

\* The last call is a try_get_result on a ticket without result, which
\* sent its poll and got a response.
PollAnswered ==
    /\ last.op = "try_get_result"
    /\ last.request # NoRequest
    /\ last.reply.exc = NoExc

\* The last call sent one request, the poll for the id of its ticket.
SentOnePoll ==
    /\ last.request.method = "GET"
    /\ last.request.url = Chars("http://azcaptcha.com/res.php")
    /\ last.request.params =
           { <<"action", Chars("get")>>,
             <<"id", captchas[last.h].captcha_id>>,
             <<"key", api_key>> }

\* The last call returned this text and its ticket has it as its result.
ResultIs(text) ==
    /\ last.exc = NoExc
    /\ last.ret = text
    /\ captchas[last.h].cached_result = text

\* The two not-ready texts.
Sentinels == { Chars("CAPCHA_NOT_READY"), Chars("CAPTCHA_NOT_READY") }

\* C16 as stated: the response is classified by its decoded text: with one
\* | in the decoded text, the text after it is returned and cached, also
\* when the | is there only once the entities are decoded.
C16_ClassifiesTheDecodedBody ==
    PollAnswered =>
        LET decoded == unescape(last.reply.text)
        IN  /\ SentOnePoll
            /\ Pipes(decoded) = 1 => ResultIs(After(decoded))
            /\ (Pipes(decoded) = 0 /\ decoded \in Sentinels) =>
                   last.exc = NoExc /\ last.ret = None /\ Pending(last.h)
            /\ (Pipes(decoded) = 0 /\ decoded \notin Sentinels) =>
                   last.exc.type = "OperationFailedError" /\ Pending(last.h)

\* C16 as amended: a try_get_result on a Pending ticket sends one poll.
\* Whether the response holds a result is decided on the raw text: with a
\* | in it, the text is decoded and split at every |, and the second of
\* exactly two parts is returned and cached (OK|5&amp;6 caches 5&6), any
\* other number of parts raising ResponseFormatError; without a | in the
\* raw text, one of the two not-ready texts gives None and any other text
\* raises OperationFailedError with the raw text, also when decoding it
\* would give a | (OK&#124;x).
C16_ClassifiesTheRawBody ==
    PollAnswered =>
        LET text    == last.reply.text
            decoded == unescape(text)
        IN  /\ SentOnePoll
            /\ (Pipes(text) > 0 /\ Pipes(decoded) = 1) => ResultIs(After(decoded))
            /\ (Pipes(text) > 0 /\ Pipes(decoded) # 1) =>
                   last.exc.type = "ResponseFormatError" /\ Pending(last.h)
            /\ (Pipes(text) = 0 /\ text \in Sentinels) =>
                   last.exc = NoExc /\ last.ret = None /\ Pending(last.h)
            /\ (Pipes(text) = 0 /\ text \notin Sentinels) =>
                   FailedWith(text) /\ Pending(last.h)
            /\ text = Chars("OK|5&amp;6") => ResultIs(Chars("5&6"))
            /\ text = Chars("OK&#124;x") => FailedWith(Chars("OK&#124;x"))

\* A try_get_result was answered OK&#124;x, whose | is there once it is
\* decoded: it raised OperationFailedError and its ticket has no result.
C16_Witness ==
    /\ PollAnswered
    /\ last.reply.text = Chars("OK&#124;x")
    /\ last.exc.type = "OperationFailedError"
    /\ Pending(last.h)

(* ----------------------------------------------------------------------- *)
(* C17                                                                     *)
(* ----------------------------------------------------------------------- *)

\* C17: ResponseFormatError is raised only by an operation that parses a
\* response (get_balance, solve, try_get_result and with it await_result,
\* report_bad), and only once it has sent its request and got a response
\* with a body: never by get_stats or get_load, and never for a failure
\* before or during the network call.
C17_FormatErrorOnlyAfterABody ==
    last.exc.type = "ResponseFormatError" =>
        /\ last.op \in {"get_balance", "solve", "try_get_result",
                        "await_result", "report_bad"}
        /\ last.request # NoRequest
        /\ last.reply # NoReply
        /\ last.reply.exc = NoExc

(* ----------------------------------------------------------------------- *)
(* C18                                                                     *)
(* ----------------------------------------------------------------------- *)

\* The last call is an await_result that has returned.
AwaitReturned ==
    /\ last.op = "await_result"
    /\ ~last.running
    /\ last.exc = NoExc

\* The passes of the history before its last entry were polls answered
\* not-ready.
EarlierTriesNotReady(log) ==
    \A i \in 1..(Len(log) - 1) :
        log[i][1] = "try" => log[i][2] /\ log[i][3] \in Sentinels

\* C18 as stated: await_result returns on the first result that is not
\* empty: what it returns is neither absent nor the empty text, and the
\* ticket is then Resolved with that value as its result.
C18_AwaitReturnsNonEmptyText ==
    AwaitReturned =>
        /\ last.ret # None
        /\ last.ret # <<>>
        /\ Resolved(last.h)
        /\ captchas[last.h].cached_result = last.ret

\* C18 as amended: await_result returns on the first try_get_result whose
\* result is not None: what it returns is never absent, but it is the
\* empty text when the poll is answered OK|; the ticket is then Resolved
\* with the returned value as its result, and every earlier pass of the
\* call was a poll answered not-ready.
C18_AwaitReturnsFirstResult ==
    /\ AwaitReturned =>
           /\ last.ret # None
           /\ Resolved(last.h)
           /\ captchas[last.h].cached_result = last.ret
           /\ pc[last.h] = "idle"
           /\ EarlierTriesNotReady(awaitLog[last.h])
    /\ (last.op = "await_result" /\ last.reply = Response(Chars("OK|"))) =>
           /\ AwaitReturned
           /\ last.ret = <<>>
           /\ captchas[last.h].cached_result = <<>>

\* An await_result was answered not-ready, slept, was answered OK| and
\* returned the empty text, now the result of its ticket.
C18_Witness ==
    /\ AwaitReturned
    /\ last.reply = Response(Chars("OK|"))
    /\ last.ret = <<>>
    /\ captchas[last.h].cached_result = <<>>
    /\ Len(awaitLog[last.h]) = 3

(* ----------------------------------------------------------------------- *)
(* C19                                                                     *)
(* ----------------------------------------------------------------------- *)

\* C19: a try_get_result (called by the caller or by await_result) or a
\* report_bad that raises leaves the id, the result and the bad-report
\* flag of its ticket as they were before the call; and a poll answered a
\* text with more than one | raises ResponseFormatError with none of its
\* parts cached.
C19_RaisingCallLeavesTheTicket ==
    [][\A h \in Handles :
          /\ (last'.exc # NoExc /\ (TryStep(h) \/ call_report_bad(h))) =>
                 /\ captchas'[h].captcha_id = captchas[h].captcha_id
                 /\ captchas'[h].cached_result = captchas[h].cached_result
                 /\ captchas'[h].reported_bad = captchas[h].reported_bad
          /\ (last'.reply.exc = NoExc /\ last'.reply # NoReply
                 /\ Pipes(last'.reply.text) > 1 /\ TryStep(h)) =>
                 /\ last'.exc.type = "ResponseFormatError"
                 /\ captchas'[h].cached_result = None
                 /\ captchas'[h] = captchas[h]]_vars

\* A try_get_result was answered OK|a|b: it raised ResponseFormatError and
\* its ticket has no result.
C19_Witness ==
    /\ last.op = "try_get_result"
    /\ last.reply = Response(Chars("OK|a|b"))
    /\ last.exc.type = "ResponseFormatError"
    /\ Pending(last.h)

(* ----------------------------------------------------------------------- *)
(* C20                                                                     *)
(* ----------------------------------------------------------------------- *)

\* The last call sent a report request.
SentReport ==
    /\ last.request # NoRequest
    /\ <<"action", Chars("reportbad")>> \in last.request.params

\* C20: a report request is sent only by a report_bad on a ticket that has
\* its result, and it carries the id of that ticket (with the key of the
\* client, to the result endpoint); a report_bad that is refused with a
\* usage error has sent no request at all.
C20_ReportOnlyForAResolvedTicket ==
    /\ SentReport =>
           /\ last.op = "report_bad"
           /\ Resolved(last.h)
           /\ ~UsageError(last.exc)
           /\ last.request.method = "GET"
           /\ last.request.url = Chars("http://azcaptcha.com/res.php")
           /\ last.request.params =
                  { <<"action", Chars("reportbad")>>,
                    <<"id", captchas[last.h].captcha_id>>,
                    <<"key", api_key>> }
    /\ (last.op = "report_bad" /\ Pending(last.h)) =>
           /\ last.request = NoRequest
           /\ last.reply = NoReply
           /\ UsageError(last.exc)
    /\ (last.op = "report_bad" /\ UsageError(last.exc)) =>
           last.request = NoRequest /\ last.reply = NoReply

\* A report_bad on the Resolved ticket 12345 sent its report, with that id.
C20_Witness ==
    /\ last.op = "report_bad"
    /\ SentReport
    /\ Resolved(last.h)
    /\ <<"id", Chars("12345")>> \in last.request.params

====
